---------------------------- MODULE Spec2Model ----------------------------
(***************************************************************************)
(* Model of the signal-analysis core of wafo.misc (pywafo):                *)
(* findcross / _findcross, findextrema, rfcfilter, findrfc, findtp and     *)
(* findtc, in their pure-Python code path (clib is None).  A call is one   *)
(* action; the loop of rfcfilter is taken one iteration at a time.         *)
(*                                                                         *)
(* Arrays are sequences; the program's indices are 0-based and are kept    *)
(* 0-based in every index the model stores or returns (At(s, i) reads the  *)
(* element the program calls s[i]).                                        *)
(***************************************************************************)
EXTENDS Integers, Sequences, FiniteSets

(* ------------------------------ bounds --------------------------------- *)
\* longest signal drawn
MaxLen == 5
\* sample values are drawn from -1 .. MaxVal
MaxVal == 1
\* rainflow thresholds are drawn from 0 .. MaxH
MaxH == 2
\* longest turning-point sequence handed to findrfc directly
MaxTp == 7

Vals == (-1)..MaxVal
Levels == Vals
Signals == UNION {[1..len -> Vals] : len \in 0..MaxLen}
Thresholds == 0..MaxH
Methods == {0, 1}
TpInputs == UNION {[1..len -> Vals] : len \in 0..MaxTp}

\* largest side of a min-max matrix drawn, and the largest total it holds
MaxN == 5
MaxMass == 3

(* ------------------------- array primitives ---------------------------- *)
\* s[i] of the program (0-based)
At(s, i) == s[i + 1]

\* numpy.sign on one number
sign(a) == IF a > 0 THEN 1 ELSE IF a < 0 THEN -1 ELSE 0

\* abs on one number
abs(a) == IF a < 0 THEN -a ELSE a

\* numpy.diff of a 1-d array
diff(s) == [k \in 1..(IF Len(s) = 0 THEN 0 ELSE Len(s) - 1) |-> s[k + 1] - s[k]]

RECURSIVE nonzeroFrom(_, _)
nonzeroFrom(b, k) ==
    IF k > Len(b) THEN <<>>
    ELSE (IF b[k] THEN <<k - 1>> ELSE <<>>) \o nonzeroFrom(b, k + 1)

\* (b).nonzero(): the 0-based positions at which the boolean array b is true
nonzero(b) == nonzeroFrom(b, 1)

\* (b).argmax() of a boolean array holding at least one True
argmax(b) == CHOOSE k \in 0..(Len(b) - 1) :
                 /\ At(b, k)
                 /\ \A m \in 0..(k - 1) : ~At(b, m)

\* s.argmin() and s.argmax() of a non-empty array: the first position of
\* the smallest (largest) element
argminOf(s) == CHOOSE k \in 0..(Len(s) - 1) :
                   /\ \A m \in 0..(Len(s) - 1) : At(s, k) <= At(s, m)
                   /\ \A m \in 0..(k - 1) : At(s, m) > At(s, k)
argmaxOf(s) == CHOOSE k \in 0..(Len(s) - 1) :
                   /\ \A m \in 0..(Len(s) - 1) : At(s, k) >= At(s, m)
                   /\ \A m \in 0..(k - 1) : At(s, m) < At(s, k)

\* s[from:to]
Slice(s, from, to) == SubSeq(s, from + 1, to)

\* s.sum()
RECURSIVE Sum(_)
Sum(s) == IF s = <<>> THEN 0 ELSE s[1] + Sum(Tail(s))

\* s[from::step]
RECURSIVE SliceStep(_, _, _)
SliceStep(s, from, step) ==
    IF from >= Len(s) THEN <<>>
    ELSE <<At(s, from)>> \o SliceStep(s, from + step, step)

\* s[from::]
SliceFrom(s, from) == SubSeq(s, from + 1, Len(s))

\* s[:-1]
DropLast(s) == IF Len(s) = 0 THEN <<>> ELSE SubSeq(s, 1, Len(s) - 1)

\* what a call hands back: the exception raised (or ""), whether the value
\* is None, and the returned array
Returned(a) == [exc |-> "", none |-> FALSE, val |-> a]
ReturnedNone == [exc |-> "", none |-> TRUE, val |-> <<>>]
Raised(e) == [exc |-> e, none |-> FALSE, val |-> <<>>]

(* ------------------------------ _findcross ----------------------------- *)
\* variant: the leading run takes the sign of the sample that follows it
FoldLeadingSameSign(xn, ix) ==
    [k \in 1..Len(xn) |-> IF k - 1 <= ix THEN At(xn, ix + 1) ELSE xn[k]]

\* variant: the leading run is left on the level
FoldLeadingUnfolded(xn, ix) == xn

\* xn[0:ix + 1] = -xn[ix + 1]
FoldLeading(xn, ix) ==
    [k \in 1..Len(xn) |-> IF k - 1 <= ix THEN -At(xn, ix + 1) ELSE xn[k]]

\* variant: interior level samples are left on the level
FoldInteriorUnfolded(xn, iz) == xn

\* variant: an interior level sample takes the sign of the sample after it
RECURSIVE FoldInteriorNext(_, _)
FoldInteriorNext(xn, iz) ==
    IF iz = <<>> THEN xn
    ELSE FoldInteriorNext(
             [xn EXCEPT ![iz[1] + 1] =
                 IF iz[1] + 1 < Len(xn) THEN At(xn, iz[1] + 1) ELSE At(xn, iz[1] - 1)],
             Tail(iz))

\* for ix in iz.tolist(): xn[ix] = xn[ix - 1]
RECURSIVE FoldInterior(_, _)
FoldInterior(xn, iz) ==
    IF iz = <<>> THEN xn
    ELSE FoldInterior([xn EXCEPT ![iz[1] + 1] = At(xn, iz[1] - 1)], Tail(iz))

\* ind, = (xn[:n - 1] * xn[1:] < 0).nonzero()
CrossInd(xn) ==
    nonzero([k \in 1..(IF Len(xn) = 0 THEN 0 ELSE Len(xn) - 1) |->
                 xn[k] * xn[k + 1] < 0])

\* _findcross(xn): the indices found, and xn as the call leaves it (the sign
\* array is written in place and findcross reads it afterwards)
findcross_(xn) ==
    LET n == Len(xn)
        iz == nonzero([k \in 1..n |-> xn[k] = 0])
    IN  IF Len(iz) > 0
        THEN IF At(iz, 0) = 0
             THEN IF Len(iz) = n
                  THEN [ind |-> <<>>, xn |-> xn]
                  ELSE LET diz  == diff(iz)
                           gap  == [k \in 1..Len(diz) |-> diz[k] > 1]
                           ix   == IF Len(diz) > 0 /\ (\E k \in 1..Len(diz) : gap[k])
                                   THEN At(iz, argmax(gap))
                                   ELSE iz[Len(iz)]
                           xn1  == FoldLeading(xn, ix)
                           xn2  == FoldInterior(xn1, SliceFrom(iz, ix + 1))
                       IN  [ind |-> CrossInd(xn2), xn |-> xn2]
             ELSE LET xn2 == FoldInterior(xn, iz)
                  IN  [ind |-> CrossInd(xn2), xn |-> xn2]
        ELSE [ind |-> CrossInd(xn), xn |-> xn]

(* ------------------------------- findcross ----------------------------- *)
NoKind == "None"
AllKinds == {"du", "all", NoKind}
WaveKinds == {"dw", "uw", "tw", "cw"}
KnownKinds == AllKinds \cup {"d", "u"} \cup WaveKinds
Kinds == KnownKinds \cup {"xx"}
TpKinds == {NoKind, "astm", "mw", "Mw"}

\* a ^ b on truth values
xor(a, b) == (a /\ ~b) \/ (~a /\ b)

\* kind == 'd': ind[t_0::2] with t_0 = int(xn[ind[0] + 1] > 0)
Downcrossings(xn, ind) ==
    SliceStep(ind, IF At(xn, At(ind, 0) + 1) > 0 THEN 1 ELSE 0, 2)

\* variant: the start offset of 'u' tested with the wrong sign
UpcrossingsWrongSign(xn, ind) ==
    SliceStep(ind, IF At(xn, At(ind, 0) + 1) > 0 THEN 1 ELSE 0, 2)

\* kind == 'u': ind[t_0::2] with t_0 = int(xn[ind[0] + 1] < 0)
Upcrossings(xn, ind) ==
    SliceStep(ind, IF At(xn, At(ind, 0) + 1) < 0 THEN 1 ELSE 0, 2)

\* variant: no parity trim
TrimParityNone(ind, kind) == ind

\* the parity trim of the wave kinds: drop the last crossing when the count
\* is odd for 'tw'/'cw' or even for 'dw'/'uw'
TrimParity(ind, kind) ==
    IF xor(Len(ind) % 2 = 1, kind \in {"dw", "uw"}) THEN DropLast(ind) ELSE ind

\* kind in ('dw', 'uw', 'tw', 'cw')
WaveCrossings(xn, ind, kind) ==
    LET first_is_down_crossing == At(xn, At(ind, 0)) > At(xn, At(ind, 0) + 1)
        ind1 == IF xor(first_is_down_crossing, kind \in {"dw", "tw"})
                THEN SliceFrom(ind, 1) ELSE ind
    IN  TrimParity(ind1, kind)

\* variant: xn shares its memory with x, so what _findcross writes into xn
\* shows in the caller's signal
findcross_xShared(x, v) == findcross_([k \in 1..Len(x) |-> sign(x[k] - v)]).xn

\* the caller's x when findcross(x, v, kind) is over: xn is a new array,
\* np.int8(sign(atleast_1d(x).ravel() - v)), and _findcross writes into xn only
findcross_x(x, v) == x

findcross(x, v, kind) ==
    LET r   == findcross_([k \in 1..Len(x) |-> sign(x[k] - v)])
        xn  == r.xn
        ind == r.ind
    IN  IF Len(ind) = 0 THEN Returned(ind)
        ELSE IF kind \notin AllKinds
             THEN IF kind = "d" THEN Returned(Downcrossings(xn, ind))
                  ELSE IF kind = "u" THEN Returned(Upcrossings(xn, ind))
                  ELSE IF kind \in WaveKinds
                       THEN Returned(WaveCrossings(xn, ind, kind))
                       ELSE Raised("ValueError")
             ELSE Returned(ind)

(* ------------------------------ findextrema ---------------------------- *)
\* variant: crossings of the signal itself, not of its first difference
findextremaNoDiff(x) ==
    LET r == findcross(x, 0, NoKind)
    IN  [r EXCEPT !.val = [k \in 1..Len(r.val) |-> r.val[k] + 1]]

\* findcross(diff(xn), 0.0) + 1
findextrema(x) ==
    LET r == findcross(diff(x), 0, NoKind)
    IN  [r EXCEPT !.val = [k \in 1..Len(r.val) |-> r.val[k] + 1]]

(* ------------------------------- rfcfilter ----------------------------- *)
\* variant: cmpfun1 is <= whatever the method
cmpfun1Inclusive(method, a, b) == a <= b

\* aleb / altb as selected by method: cmpfun1 is <= for method 0, < otherwise
cmpfun1(method, a, b) == IF method = 0 THEN a <= b ELSE a < b

\* variant: cmpfun2 is < whatever the method
cmpfun2Strict(method, a, b) == a < b

\* cmpfun2 is < for method 0, <= otherwise
cmpfun2(method, a, b) == IF method = 0 THEN a < b ELSE a <= b

\* the locals of rfcfilter before the loop; y[t0] of an empty signal raises
RfcInit(y) ==
    IF Len(y) = 0
    THEN [t |-> <<>>, j |-> 0, t0 |-> 0, y0 |-> 0, z0 |-> 0, ti |-> 1,
          warned |-> FALSE, exc |-> "IndexError"]
    ELSE [t |-> [k \in 1..Len(y) |-> 0], j |-> 0, t0 |-> 0, y0 |-> At(y, 0),
          z0 |-> 0, ti |-> 1, warned |-> FALSE, exc |-> ""]

\* TRUE when neither transition test fires (the 'Something wrong' branch)
SomethingWrong(z0, y0, yi, h, method) ==
    LET fpi == y0 + h
        fmi == y0 - h
    IN  /\ z0 # 0
        /\ ~((z0 = 1 /\ cmpfun1(method, yi, fmi)) \/ (z0 = -1 /\ cmpfun2(method, yi, fpi)))
        /\ ~((z0 = 1 /\ cmpfun2(method, fmi, yi)) \/ (z0 = -1 /\ cmpfun1(method, fpi, yi)))

\* z1: the direction after the sample yi; in the warning branch z1 keeps the
\* value the previous iteration left in it, which is z0
Direction(z0, y0, yi, h, method) ==
    LET fpi == y0 + h
        fmi == y0 - h
    IN  IF z0 = 0
        THEN IF cmpfun1(method, yi, fmi) THEN -1
             ELSE IF cmpfun1(method, fpi, yi) THEN 1
             ELSE 0
        ELSE IF (z0 = 1 /\ cmpfun1(method, yi, fmi)) \/ (z0 = -1 /\ cmpfun2(method, yi, fpi))
             THEN -1
             ELSE IF (z0 = 1 /\ cmpfun2(method, fmi, yi)) \/ (z0 = -1 /\ cmpfun1(method, fpi, yi))
                  THEN 1
                  ELSE z0

\* variant: a sample in the established direction always becomes the
\* retained point
RetainedLatest(z0, z1, t0, y0, ti, yi) ==
    IF z0 = 0 /\ z1 = 0 THEN <<t0, y0>> ELSE <<ti, yi>>

\* (t1, y1): the retained point after the sample (ti, yi)
Retained(z0, z1, t0, y0, ti, yi) ==
    IF z0 = 0
    THEN IF z1 = 0 THEN <<t0, y0>> ELSE <<ti, yi>>
    ELSE IF z1 # z0 THEN <<ti, yi>>
         ELSE IF z1 = -1 THEN (IF y0 < yi THEN <<t0, y0>> ELSE <<ti, yi>>)
         ELSE (IF y0 > yi THEN <<t0, y0>> ELSE <<ti, yi>>)

\* variant: t[j] = t0; j += 1
EmitBeforeAdvance(st) ==
    IF st.j + 1 >= Len(st.t)
    THEN [st EXCEPT !.j = st.j + 1, !.exc = "IndexError"]
    ELSE [st EXCEPT !.j = st.j + 1, !.t[st.j + 1] = st.t0]

\* j += 1; t[j] = t0  (t has len(y) entries: a j beyond them raises)
Emit(st) ==
    IF st.j + 1 >= Len(st.t)
    THEN [st EXCEPT !.j = st.j + 1, !.exc = "IndexError"]
    ELSE [st EXCEPT !.j = st.j + 1, !.t[st.j + 2] = st.t0]

\* one pass of the loop body, for the sample yi = y[ti]
RfcStep(st, y, h, method) ==
    LET yi == At(y, st.ti)
        z1 == Direction(st.z0, st.y0, yi, h, method)
        r1 == Retained(st.z0, z1, st.t0, st.y0, st.ti, yi)
        s1 == IF abs(st.z0 - z1) = 2 THEN Emit(st) ELSE st
    IN  [s1 EXCEPT !.t0 = r1[1], !.y0 = r1[2], !.z0 = z1, !.ti = st.ti + 1,
                   !.warned = st.warned \/ SomethingWrong(st.z0, st.y0, yi, h, method)]

\* variant: the pending last point is never emitted
RfcEndNoFinal(st, y, h, method) == st

\* after the loop: if cmpfun1(h, abs(y0 - y[t[j]])): j += 1; t[j] = t0
RfcEnd(st, y, h, method) ==
    IF cmpfun1(method, h, abs(st.y0 - At(y, At(st.t, st.j)))) THEN Emit(st) ELSE st

\* y[t[:j + 1]]
RfcValue(st, y) ==
    IF st.exc # "" THEN Raised(st.exc)
    ELSE Returned([k \in 1..(st.j + 1) |-> At(y, st.t[k])])

RECURSIVE RfcLoop(_, _, _, _)
RfcLoop(st, y, h, method) ==
    IF st.exc # "" \/ st.ti >= Len(y) THEN st
    ELSE RfcLoop(RfcStep(st, y, h, method), y, h, method)

\* the locals of rfcfilter as it returns
RfcFinal(y, h, method) ==
    LET st == RfcLoop(RfcInit(y), y, h, method)
    IN  IF st.exc # "" THEN st ELSE RfcEnd(st, y, h, method)

rfcfilter(y, h, method) == RfcValue(RfcFinal(y, h, method), y)

(* -------------------------------- findrfc ------------------------------ *)
\* the backward scan: while j >= 0 and y[2j+1] <= y[2i+1], keep the lowest
\* trough y[2j] and its position; yields <<xminus, Tmi>>
RECURSIVE ScanBack(_, _, _, _, _, _)
ScanBack(y, i, j, xminus, Tmi, Tstart) ==
    IF j >= 0 /\ At(y, 2 * j + 1) <= At(y, 2 * i + 1)
    THEN IF At(y, 2 * j) < xminus
         THEN ScanBack(y, i, j - 1, At(y, 2 * j), Tstart + 2 * j, Tstart)
         ELSE ScanBack(y, i, j - 1, xminus, Tmi, Tstart)
    ELSE <<xminus, Tmi>>

\* the forward scan: while j < NC, break at a crest y[2j+1] >= y[2i+1], else
\* keep the lowest following trough; yields <<xplus, Tpl, broke>>
RECURSIVE ScanForward(_, _, _, _, _, _, _)
ScanForward(y, i, j, NC, xplus, Tpl, Tstart) ==
    IF j < NC
    THEN IF At(y, 2 * j + 1) >= At(y, 2 * i + 1)
         THEN <<xplus, Tpl, TRUE>>
         ELSE IF At(y, 2 * j + 2) <= xplus
              THEN ScanForward(y, i, j + 1, NC, At(y, 2 * j + 2), Tstart + 2 * j + 2, Tstart)
              ELSE ScanForward(y, i, j + 1, NC, xplus, Tpl, Tstart)
    ELSE <<xplus, Tpl, FALSE>>

\* variant: every closed cycle is counted, whatever its amplitude
CountedAlways(amplitude, h) == TRUE

\* variant: a cycle of amplitude exactly h is not counted
CountedAbove(amplitude, h) == amplitude > h

\* if (y[2 * i + 1] - xminus) >= h, and the same test on xplus
Counted(amplitude, h) == amplitude >= h

\* the indices the loop body writes for pair i (none, or one cycle)
RfcCycle(y, i, NC, Tstart, h) ==
    LET back   == IF i # 0
                  THEN ScanBack(y, i, i - 1, At(y, 2 * i), Tstart + 2 * i, Tstart)
                  ELSE <<At(y, 2 * i), Tstart + 2 * i>>
        xminus == back[1]
        Tmi    == back[2]
        crest  == At(y, 2 * i + 1)
        closeMinus == IF Counted(crest - xminus, h)
                      THEN <<Tmi, Tstart + 2 * i + 1>> ELSE <<>>
    IN  IF xminus >= At(y, 2 * i + 2)
        THEN closeMinus
        ELSE LET fwd   == ScanForward(y, i, i + 1, NC, At(y, 2 * i + 2),
                                      Tstart + 2 * i + 2, Tstart)
                 xplus == fwd[1]
                 Tpl   == fwd[2]
             IN  IF ~fwd[3] THEN closeMinus
                 ELSE IF xplus <= xminus THEN closeMinus
                 ELSE IF Counted(crest - xplus, h) THEN <<Tstart + 2 * i + 1, Tpl>>
                 ELSE <<>>

\* for i in xrange(NC): ind[:ix] as the loop leaves it
RECURSIVE RfcCycles(_, _, _, _, _)
RfcCycles(y, i, NC, Tstart, h) ==
    IF i >= NC THEN <<>>
    ELSE RfcCycle(y, i, NC, Tstart, h) \o RfcCycles(y, i + 1, NC, Tstart, h)

\* the position at which v goes into the ascending sequence s
RECURSIVE Insert(_, _)
Insert(s, v) ==
    IF s = <<>> THEN <<v>>
    ELSE IF v <= s[1] THEN <<v>> \o s
    ELSE <<s[1]>> \o Insert(Tail(s), v)

\* variant: the index buffer is returned back to front
sortReversed(s) == [k \in 1..Len(s) |-> s[Len(s) + 1 - k]]

\* variant: the index buffer is returned as the loop filled it
sortNone(s) == s

\* np.sort
RECURSIVE sort(_)
sort(s) == IF s = <<>> THEN <<>> ELSE Insert(sort(Tail(s)), s[1])

findrfc(tp, h) ==
    LET n == Len(tp)
    IN  IF n < 2 THEN Raised("IndexError")
        ELSE LET firstMax == At(tp, 0) > At(tp, 1)
                 y      == IF firstMax THEN SliceFrom(tp, 1) ELSE tp
                 NC     == IF firstMax THEN ((n - 1) \div 2) - 1 ELSE (n \div 2) - 1
                 Tstart == IF firstMax THEN 1 ELSE 0
             IN  IF NC < 1 THEN Returned(<<>>)
                 ELSE IF At(y, 0) > At(y, 1) /\ At(y, 1) > At(y, 2) THEN Returned(<<>>)
                 ELSE IF At(y, 0) < At(y, 1) /\ At(y, 1) < At(y, 2) THEN Returned(<<>>)
                 ELSE Returned(sort(RfcCycles(y, 0, NC, Tstart, h)))

\* ind[:ix] as findrfc holds it before the sort: the pairs in the order the
\* loop wrote them (empty on the early returns)
findrfc_ind(tp, h) ==
    LET n == Len(tp)
    IN  IF n < 2 THEN <<>>
        ELSE LET firstMax == At(tp, 0) > At(tp, 1)
                 y      == IF firstMax THEN SliceFrom(tp, 1) ELSE tp
                 NC     == IF firstMax THEN ((n - 1) \div 2) - 1 ELSE (n \div 2) - 1
                 Tstart == IF firstMax THEN 1 ELSE 0
             IN  IF NC < 1 THEN <<>>
                 ELSE IF At(y, 0) > At(y, 1) /\ At(y, 1) > At(y, 2) THEN <<>>
                 ELSE IF At(y, 0) < At(y, 1) /\ At(y, 1) < At(y, 2) THEN <<>>
                 ELSE RfcCycles(y, 0, NC, Tstart, h)

(* -------------------------------- findtp ------------------------------- *)
\* a[ind] for an index array ind
Take(a, ind) == [k \in 1..Len(ind) |-> At(a, ind[k])]

\* the kind in ('mw', 'Mw') trimming; ind[0] or ind[1] missing raises
WaveTp(x, ind, kind) ==
    IF Len(ind) < 2 THEN Raised("IndexError")
    ELSE LET first_is_max == At(x, At(ind, 0)) > At(x, At(ind, 1))
             ind1 == IF xor(first_is_max, kind = "Mw") THEN SliceFrom(ind, 1) ELSE ind
         IN  Returned(IF Len(ind1) % 2 # 1 THEN DropLast(ind1) ELSE ind1)

\* the boundary indices added to the extrema
AddEnds(x, ind, kind) ==
    LET n == Len(x)
    IN  IF kind = "astm"
        THEN IF At(x, At(ind, 0)) # At(x, 0) THEN <<0>> \o ind \o <<n - 1>>
             ELSE ind \o <<n - 1>>
        ELSE IF At(x, At(ind, 0)) > At(x, At(ind, 1)) THEN <<0>> \o ind \o <<n - 1>>
             ELSE ind \o <<n - 1>>

\* the kind in ('mw', 'Mw') trimming of the indices, or none
findtpKind(x, ind, kind) ==
    IF kind \in {"mw", "Mw"} THEN WaveTp(x, ind, kind) ELSE Returned(ind)

\* ind = ind[ind1] with r1 the result of ind1 = findrfc(x[ind], h), for h > 0
findtpFiltered(x, ind0, r1, h, kind) ==
    IF r1.exc # "" THEN r1
    ELSE findtpKind(x, IF h > 0 THEN Take(ind0, r1.val) ELSE ind0, kind)

\* if h > 0: ind1 = findrfc(x[ind], h)
findtpFilter(x, ind0, h, kind) ==
    findtpFiltered(x, ind0,
                   IF h > 0 THEN findrfc(Take(x, ind0), h) ELSE Returned(<<>>),
                   h, kind)

\* findtp from ext, the result of findextrema(x)
findtpExtrema(x, ext, h, kind) ==
    IF Len(ext.val) < 2 THEN ReturnedNone
    ELSE findtpFilter(x, AddEnds(x, ext.val, kind), h, kind)

\* variant: a negative h is filtered like h = 0
findtpNoNegative(x, h, kind) == findtpExtrema(x, findextrema(x), h, kind)

findtp(x, h, kind) ==
    IF h < 0 THEN Returned([k \in 1..Len(x) |-> k - 1])
    ELSE findtpExtrema(x, findextrema(x), h, kind)

(* -------------------------------- findtc ------------------------------- *)
TcKinds == WaveKinds \cup {NoKind}

\* if v is None: v = x.mean().  x[k] - mean has the sign of n*x[k] - sum, so
\* the default level is taken on the signal scaled by its length n
TcSignal(x, v_is_None) ==
    IF v_is_None THEN [k \in 1..Len(x) |-> Len(x) * x[k]] ELSE x
TcLevel(x, v, v_is_None) == IF v_is_None THEN Sum(x) ELSE v

\* ind[j] as the loop writes it: the position, within the window from
\* v_ind[j] + 1 to v_ind[j + 1], of the trough (argmin) or the crest (argmax)
TcLoopInd(x, v_ind, j, first_is_down_crossing) ==
    LET window == Slice(x, At(v_ind, j) + 1, At(v_ind, j + 1) + 1)
    IN  IF xor(first_is_down_crossing, j % 2 = 1)
        THEN argminOf(window) ELSE argmaxOf(window)

\* x[v_ind[n_c - 2] + 1:v_ind[n_c - 1]], the slice searched for the last
\* trough or crest
TcLastWindow(x, v_ind) ==
    LET n_c == Len(v_ind)
    IN  Slice(x, At(v_ind, n_c - 2) + 1, At(v_ind, n_c - 1))

\* whether ind[n_c - 2] is written after the loop
TcHasLast(n_c, n_tc, kind, first_is_down_crossing) ==
    /\ 2 * n_tc + 1 < n_c
    /\ kind \in {NoKind, IF first_is_down_crossing THEN "tw" ELSE "cw"}

\* findtc with the crossings found: both returned arrays, or the exception
\* (argmin/argmax of an empty slice is a ValueError)
TcFromCrossings(x, v_ind, kind) ==
    LET n_c     == Len(v_ind)
        is_even == (n_c + 1) % 2
        n_tc    == (n_c - 1 - is_even) \div 2
        first_is_down_crossing == At(x, At(v_ind, 0)) > At(x, At(v_ind, 0) + 1)
        hasLast == TcHasLast(n_c, n_tc, kind, first_is_down_crossing)
        last    == TcLastWindow(x, v_ind)
        ind     == [k \in 1..(n_c - 1) |->
                       IF k - 1 < 2 * n_tc
                       THEN TcLoopInd(x, v_ind, k - 1, first_is_down_crossing)
                       ELSE IF ~hasLast THEN 0
                       ELSE IF first_is_down_crossing THEN argminOf(last)
                       ELSE argmaxOf(last)]
    IN  IF n_c <= 2 THEN [exc |-> "", val |-> <<>>, v_ind |-> <<>>]
        ELSE IF hasLast /\ Len(last) = 0
             THEN [exc |-> "ValueError", val |-> <<>>, v_ind |-> <<>>]
             ELSE [exc |-> "",
                   val |-> [k \in 1..(n_c - 1) |-> v_ind[k] + ind[k] + 1],
                   v_ind |-> v_ind]

\* findtc(x_in, v, kind); v_is_None selects the default level, the mean
findtc(x_in, v, v_is_None, kind) ==
    LET c == findcross(TcSignal(x_in, v_is_None), TcLevel(x_in, v, v_is_None), kind)
    IN  IF c.exc # "" THEN [exc |-> c.exc, val |-> <<>>, v_ind |-> <<>>]
        ELSE TcFromCrossings(x_in, c.val, kind)

(* ------------------------------- mctp2rfc ------------------------------ *)
\* The matrices hold floating-point numbers.  A number is kept as the exact
\* fraction <<numerator, denominator>> in lowest terms with a positive
\* denominator, so the arithmetic below is the program's arithmetic wherever
\* the floating-point operations do not round.
RECURSIVE gcd(_, _)
gcd(a, b) == IF b = 0 THEN a ELSE gcd(b, a % b)

Frac(n, d) ==
    LET g == gcd(abs(n), abs(d))
        s == IF d < 0 THEN -1 ELSE 1
    IN  <<(s * n) \div g, (s * d) \div g>>

Float(n) == <<n, 1>>
Zero == Float(0)
One == Float(1)
Plus(a, b) == Frac(a[1] * b[2] + b[1] * a[2], a[2] * b[2])
Minus(a, b) == Frac(a[1] * b[2] - b[1] * a[2], a[2] * b[2])
Times(a, b) == Frac(a[1] * b[1], a[2] * b[2])
Over(a, b) == Frac(a[1] * b[2], a[2] * b[1])
Less(a, b) == a[1] * b[2] < b[1] * a[2]
fmax(a, b) == IF Less(a, b) THEN b ELSE a
fmin(a, b) == IF Less(b, a) THEN b ELSE a
fabs(a) == <<abs(a[1]), a[2]>>

\* sum and max of the elements of a 1-d array
RECURSIVE fsum(_)
fsum(s) == IF s = <<>> THEN Zero ELSE Plus(s[1], fsum(Tail(s)))
RECURSIVE maxOf(_)
maxOf(s) == IF Len(s) = 1 THEN s[1] ELSE fmax(s[1], maxOf(Tail(s)))

\* the tolerance 1e-6 of the significance tests
Tol == <<1, 1000000>>

\* M[i, j], and M after M[i, j] = v
At2(M, i, j) == At(At(M, i), j)
Set2(M, i, j, v) == [M EXCEPT ![i + 1][j + 1] = v]

\* an index below 0 counts from the end
Wrap(i, n) == IF i < 0 THEN i + n ELSE i

\* M[r0:r1, c0:c1]
Block(M, r0, r1, c0, c1) ==
    [a \in 1..(r1 - r0) |-> [b \in 1..(c1 - c0) |-> At2(M, r0 + a - 1, c0 + b - 1)]]

\* np.sum(M, axis=1), np.sum(M, axis=0) and M.sum()
RowSums(M) == [a \in 1..Len(M) |-> fsum(M[a])]
ColSums(M) ==
    [b \in 1..(IF Len(M) = 0 THEN 0 ELSE Len(M[1])) |->
        fsum([a \in 1..Len(M) |-> M[a][b]])]
Total(M) == fsum(RowSums(M))

\* the determinant, expanded along the first row
RECURSIVE Det(_)
Det(M) ==
    IF Len(M) = 1 THEN M[1][1]
    ELSE fsum([c \in 1..Len(M) |->
             LET minor == [a \in 1..(Len(M) - 1) |-> [b \in 1..(Len(M) - 1) |->
                              M[a + 1][IF b < c THEN b ELSE b + 1]]]
                 term  == Times(M[1][c], Det(minor))
             IN  IF c % 2 = 1 THEN term ELSE Minus(Zero, term)])

\* linalg.solve(rh, e): the solution of rh . s = e; a singular rh raises
\* LinAlgError
solve(rh, e) ==
    LET d == Det(rh)
    IN  IF d = Zero THEN [exc |-> "LinAlgError", val |-> <<>>]
        ELSE [exc |-> "", val |->
                 [c \in 1..Len(e) |->
                     Over(Det([a \in 1..Len(rh) |-> [b \in 1..Len(rh) |->
                                  IF b = c THEN e[a] ELSE rh[a][b]]]), d)]]

\* NN = MA - np.sum(AA, axis=1)
McNN(AA, MA, nA) == [a \in 1..nA |-> Minus(MA[a], RowSums(AA)[a])]

\* e = (mA - np.sum(AA, axis=0)), flipped and scaled by the flipped mA
McE(AA, mA, nA) ==
    [j \in 1..nA |->
        LET e0 == Minus(mA[nA + 1 - j], ColSums(AA)[nA + 1 - j])
        IN  IF mA[nA + 1 - j] # Zero THEN Over(e0, mA[nA + 1 - j]) ELSE e0]

\* B = PmM = np.rot90(AA), each row scaled by the flipped mA
McB(AA, mA, nA) ==
    [j \in 1..nA |-> [c \in 1..nA |->
        IF mA[nA + 1 - j] # Zero THEN Over(AA[c][nA + 1 - j], mA[nA + 1 - j])
        ELSE AA[c][nA + 1 - j]]]

\* A = np.fliplr(PMm), PMm = AA1 with each row scaled by MA
McA(AA1, MA, nA) ==
    [j \in 1..nA |-> [c \in 1..nA |->
        IF MA[j] # Zero THEN Over(AA1[j][nA + 1 - c], MA[j])
        ELSE AA1[j][nA + 1 - c]]]

\* rh = np.eye(nA) - np.dot(B, A) (1 - B * A for nA = 1)
McRh(A, B, nA) ==
    [a \in 1..nA |-> [b \in 1..nA |->
        Minus(IF a = b THEN One ELSE Zero,
              fsum([c \in 1..nA |-> Times(B[a][c], A[c][b])]))]]

\* the entry f_rfc[r0, c0] once NT, DRFC, NN, e, A, rh and the solution s of
\* rh . s = e are known.  For nA = 1 the divisor rh is not 0 where it is
\* used: B * A = 1 makes e = 0.
McEntry(f_rfc, r0, c0, nA, NT, big, DRFC, NN, e, A, rh, s) ==
    IF Less(big, NT)
    THEN IF Less(Tol, maxOf([j \in 1..nA |-> fabs(e[j])]))
            /\ Less(big, maxOf([a \in 1..nA |-> fabs(NN[a])]))
         THEN IF nA = 1
              THEN [exc |-> "",
                    val |-> Set2(f_rfc, r0, c0,
                               Plus(Times(NN[1], Times(Over(A[1][1], rh[1][1]), e[1])),
                                    DRFC))]
              ELSE IF s.exc # ""
              THEN [exc |-> s.exc, val |-> f_rfc]
              ELSE [exc |-> "",
                    val |-> Set2(f_rfc, r0, c0,
                               Plus(fsum([a \in 1..nA |->
                                      Times(NN[a], fsum([c \in 1..nA |->
                                                Times(A[a][c], s.val[c])]))]),
                                    DRFC))]
         ELSE [exc |-> "", val |-> Set2(f_rfc, r0, c0, DRFC)]
    ELSE [exc |-> "", val |-> Set2(f_rfc, r0, c0, Zero)]

\* the linear system of one pass and its solution
McSolve(f_rfc, r0, c0, nA, NT, big, DRFC, NN, e, A, rh) ==
    McEntry(f_rfc, r0, c0, nA, NT, big, DRFC, NN, e, A, rh, solve(rh, e))

McSystem(f_rfc, r0, c0, nA, NT, big, DRFC, NN, e, A, B) ==
    McSolve(f_rfc, r0, c0, nA, NT, big, DRFC, NN, e, A, McRh(A, B, nA))

\* the blocks of one pass: AA, AA1 and RAA with the marginals MA and mA
McBlocks(f_rfc, r0, c0, nA, AA, AA1, RAA, MA, mA) ==
    McSystem(f_rfc, r0, c0, nA,
             fmax(fmin(Minus(mA[1], ColSums(RAA)[1]),
                       Minus(MA[1], RowSums(RAA)[1])), Zero),
             Times(Tol, fmax(MA[1], mA[1])),
             Minus(Total(AA), Total(RAA)),
             McNN(AA, MA, nA), McE(AA, mA, nA), McA(AA1, MA, nA), McB(AA, mA, nA))

\* One pass of the inner loop: the entry f_rfc[N-1-k, k-i] computed from the
\* i-by-i blocks at rows N-1-k.., columns k-i..  The result is [exc, val]
\* with val the new f_rfc.
McBlock(f_mM, f_Mm, f_max, f_min, f_rfc, N, k, i) ==
    McBlocks(f_rfc, N - 1 - k, k - i, i,
             Block(f_mM, N - 1 - k, N - 1 - k + i, k - i, k),
             Block(f_Mm, N - 1 - k, N - 1 - k + i, k - i, k),
             Block(f_rfc, N - 1 - k, N - 1 - k + i, k - i, k),
             Slice(f_max, N - 1 - k, N - 1 - k + i),
             Slice(f_min, k - i, k))

\* for i in range(1, k), from i on
RECURSIVE McInner(_, _, _, _, _, _, _, _)
McInner(f_mM, f_Mm, f_max, f_min, st, N, k, i) ==
    IF i >= k \/ st.exc # "" THEN st
    ELSE McInner(f_mM, f_Mm, f_max, f_min,
                 McBlock(f_mM, f_Mm, f_max, f_min, st.val, N, k, i), N, k, i + 1)

\* the assignment of f_rfc[N-1-k, 0] that ends the pass for k
McFirstColumn(f_max, f_min, f_rfc, N, k) ==
    LET m0 == fmax(Zero, Minus(f_min[1],
                  fsum([t \in 1..(k - 1) |-> At2(f_rfc, N - k + t, 0)])))
        M0 == fmax(Zero, Minus(At(f_max, N - 1 - k),
                  fsum([t \in 1..(k - 1) |-> At2(f_rfc, N - 1 - k, t)])))
    IN  Set2(f_rfc, N - 1 - k, 0, fmin(m0, M0))

\* for k in range(2, N - 1), from k on
RECURSIVE McOuter(_, _, _, _, _, _, _)
McOuter(f_mM, f_Mm, f_max, f_min, st, N, k) ==
    IF k >= N - 1 \/ st.exc # "" THEN st
    ELSE LET inner == McInner(f_mM, f_Mm, f_max, f_min, st, N, k, 1)
             next  == [exc |-> inner.exc,
                       val |-> IF inner.exc # "" THEN inner.val
                               ELSE McFirstColumn(f_max, f_min, inner.val, N, k)]
         IN  McOuter(f_mM, f_Mm, f_max, f_min, next, N, k + 1)

\* variant: the pass over the first row is left out
McFirstRowSkipped(f_max, f_min, f_rfc, N, k) == f_rfc

\* for k in range(1, N), from k on: the first row
RECURSIVE McFirstRow(_, _, _, _, _)
McFirstRow(f_max, f_min, f_rfc, N, k) ==
    IF k >= N THEN f_rfc
    ELSE LET M0 == fmax(Zero, Minus(f_max[1],
                       fsum([t \in 1..k |-> At2(f_rfc, 0, N - k + t - 1)])))
             m0 == fmax(Zero, Minus(At(f_min, N - 1 - k),
                       fsum([t \in 1..k |-> At2(f_rfc, t, N - 1 - k)])))
         IN  McFirstRow(f_max, f_min,
                        Set2(f_rfc, 0, N - 1 - k, fmin(m0, M0)), N, k + 1)

\* f_rfc = zeros((N, N)) and its first two assignments
McStart(f_max, f_min, N) ==
    LET zeros == [a \in 1..N |-> [b \in 1..N |-> Zero]]
        first == Set2(zeros, Wrap(N - 2, N), 0, At(f_max, Wrap(N - 2, N)))
    IN  Set2(first, 0, Wrap(N - 2, N), At(f_min, Wrap(N - 2, N)))

\* mctp2rfc(fmM) with fMm left at None; fmM is a square array of floats
mctp2rfc(fmM) ==
    LET f_mM  == [a \in 1..Len(fmM) |-> [b \in 1..Len(fmM) |-> Float(fmM[a][b])]]
        f_Mm  == f_mM
        N     == Len(fmM)
        f_max == RowSums(f_mM)
        f_min == ColSums(f_mM)
        st    == McOuter(f_mM, f_Mm, f_max, f_min,
                         [exc |-> "", val |-> McStart(f_max, f_min, N)], N, 2)
    IN  IF st.exc # "" THEN Raised(st.exc)
        ELSE Returned(McFirstRow(f_max, f_min, st.val, N, 1))

(* ----------------------------- the program ----------------------------- *)
VARIABLES
    x,        \* the caller's signal
    pc,       \* "ready": nothing called yet; "done": the call has returned
    call,     \* the call made: operation and arguments
    result,   \* what the call returned or raised
    rfc,      \* the locals of rfcfilter: t, j, t0, y0, z0 and the loop position ti
    rfc_ind,  \* findrfc's ind[:ix] as the loop left it, before the sort
    v_ind,    \* the crossings findtc returns next to its result
    fmM       \* the caller's min-max matrix

vars == <<x, pc, call, result, rfc, rfc_ind, v_ind, fmM>>

NoRfc == [t |-> <<>>, j |-> 0, t0 |-> 0, y0 |-> 0, z0 |-> 0, ti |-> 0,
          warned |-> FALSE, exc |-> ""]

NoCall == [op |-> "", v |-> 0, v_is_None |-> FALSE, kind |-> NoKind, h |-> 0,
           method |-> 0]

Init ==
    /\ x \in Signals
    /\ pc = "ready"
    /\ call = NoCall
    /\ result = Returned(<<>>)
    /\ rfc = NoRfc
    /\ rfc_ind = <<>>
    /\ v_ind = <<>>
    /\ fmM = <<>>

\* findrfc is called on a turning-point sequence of the caller's making
InitFindrfc ==
    /\ x \in TpInputs
    /\ pc = "ready"
    /\ call = NoCall
    /\ result = Returned(<<>>)
    /\ rfc = NoRfc
    /\ rfc_ind = <<>>
    /\ v_ind = <<>>
    /\ fmM = <<>>

Findcross ==
    /\ pc = "ready"
    /\ \E v \in Levels, kind \in Kinds :
         /\ call' = [NoCall EXCEPT !.op = "findcross", !.v = v, !.kind = kind]
         /\ result' = findcross(x, v, kind)
         /\ x' = findcross_x(x, v)
    /\ pc' = "done"
    /\ UNCHANGED <<rfc, rfc_ind, v_ind, fmM>>

Findextrema ==
    /\ pc = "ready"
    /\ call' = [NoCall EXCEPT !.op = "findextrema"]
    /\ result' = findextrema(x)
    /\ pc' = "done"
    /\ UNCHANGED <<x, rfc, rfc_ind, v_ind, fmM>>

\* rfcfilter up to the loop
RfcfilterBegin ==
    /\ pc = "ready"
    /\ \E h \in Thresholds, method \in Methods :
         call' = [NoCall EXCEPT !.op = "rfcfilter", !.h = h, !.method = method]
    /\ rfc' = RfcInit(x)
    /\ IF rfc'.exc # ""
       THEN pc' = "done" /\ result' = Raised(rfc'.exc)
       ELSE pc' = "rfc_loop" /\ UNCHANGED result
    /\ UNCHANGED <<x, rfc_ind, v_ind, fmM>>

\* one iteration of the rainflow filter loop
RfcfilterStep ==
    /\ pc = "rfc_loop"
    /\ rfc.ti < Len(x)
    /\ rfc' = RfcStep(rfc, x, call.h, call.method)
    /\ IF rfc'.exc # ""
       THEN pc' = "done" /\ result' = Raised(rfc'.exc)
       ELSE UNCHANGED <<pc, result>>
    /\ UNCHANGED <<x, call, rfc_ind, v_ind, fmM>>

\* the final-point test and the return
RfcfilterReturn ==
    /\ pc = "rfc_loop"
    /\ rfc.ti >= Len(x)
    /\ rfc' = RfcEnd(rfc, x, call.h, call.method)
    /\ result' = RfcValue(rfc', x)
    /\ pc' = "done"
    /\ UNCHANGED <<x, call, rfc_ind, v_ind, fmM>>

Findtp ==
    /\ pc = "ready"
    /\ \E h \in {-1} \cup Thresholds, kind \in TpKinds :
         /\ call' = [NoCall EXCEPT !.op = "findtp", !.h = h, !.kind = kind]
         /\ result' = findtp(x, h, kind)
    /\ pc' = "done"
    /\ UNCHANGED <<x, rfc, rfc_ind, v_ind, fmM>>

Findrfc ==
    /\ pc = "ready"
    /\ \E h \in Thresholds :
         /\ call' = [NoCall EXCEPT !.op = "findrfc", !.h = h]
         /\ result' = findrfc(x, h)
         /\ rfc_ind' = findrfc_ind(x, h)
    /\ pc' = "done"
    /\ UNCHANGED <<x, rfc, v_ind, fmM>>

Findtc ==
    /\ pc = "ready"
    /\ \E v \in Levels, v_is_None \in BOOLEAN, kind \in TcKinds :
         /\ v_is_None => v = 0
         /\ call' = [NoCall EXCEPT !.op = "findtc", !.v = v,
                                   !.v_is_None = v_is_None, !.kind = kind]
         /\ LET r == findtc(x, v, v_is_None, kind)
            IN  /\ result' = [exc |-> r.exc, none |-> FALSE, val |-> r.val]
                /\ v_ind' = r.v_ind
    /\ pc' = "done"
    /\ UNCHANGED <<x, rfc, rfc_ind, fmM>>

Next ==
    \/ Findcross
    \/ Findextrema
    \/ Findtp
    \/ Findrfc
    \/ Findtc
    \/ RfcfilterBegin
    \/ RfcfilterStep
    \/ RfcfilterReturn

Spec == Init /\ [][Next]_vars

\* the calls of findrfc alone, on turning-point sequences up to MaxTp long
NextFindrfc == Findrfc

SpecFindrfc == InitFindrfc /\ [][NextFindrfc]_vars

\* findtp with kind left at None, on signals up to MaxTp long
FindtpDefault ==
    /\ pc = "ready"
    /\ \E h \in Thresholds :
         /\ call' = [NoCall EXCEPT !.op = "findtp", !.h = h]
         /\ result' = findtp(x, h, NoKind)
    /\ pc' = "done"
    /\ UNCHANGED <<x, rfc, rfc_ind, v_ind, fmM>>

NextFindtp == FindtpDefault

SpecFindtp == InitFindrfc /\ [][NextFindtp]_vars

\* the rows of the given length holding exactly m counts
RECURSIVE CountRows(_, _)
CountRows(len, m) ==
    IF len = 0 THEN (IF m = 0 THEN {<<>>} ELSE {})
    ELSE UNION {{<<c>> \o row : row \in CountRows(len - 1, m - c)} : c \in 0..m}

\* the matrices of the given number of rows, of side N, holding m counts or fewer
RECURSIVE CountMatrices(_, _, _)
CountMatrices(rows, N, m) ==
    IF rows = 0 THEN {<<>>}
    ELSE UNION {{<<row>> \o M : row \in CountRows(N, c),
                                M \in CountMatrices(rows - 1, N, m - c)} : c \in 0..m}

\* mctp2rfc is called on a min-max matrix of the caller's making: a matrix
\* of side MaxN or less that holds MaxMass counts or fewer
InitMctp ==
    /\ x = <<>>
    /\ pc = "ready"
    /\ call = NoCall
    /\ result = Returned(<<>>)
    /\ rfc = NoRfc
    /\ rfc_ind = <<>>
    /\ v_ind = <<>>
    /\ fmM \in UNION {CountMatrices(N, N, MaxMass) : N \in 1..MaxN}

Mctp2rfc ==
    /\ pc = "ready"
    /\ fmM # <<>>
    /\ call' = [NoCall EXCEPT !.op = "mctp2rfc"]
    /\ result' = mctp2rfc(fmM)
    /\ pc' = "done"
    /\ UNCHANGED <<x, rfc, rfc_ind, v_ind, fmM>>

NextMctp == Mctp2rfc

SpecMctp == InitMctp /\ [][NextMctp]_vars

\* mctp2rfc is called on a matrix whose entries off the main diagonal are 0,
\* with any counts up to MaxMass on the diagonal
McDiagonal ==
    UNION {{[a \in 1..N |-> [b \in 1..N |-> IF a = b THEN d[a] ELSE 0]] :
               d \in [1..N -> 0..MaxMass]} : N \in 1..MaxN}

InitMctpDiagonal ==
    /\ x = <<>>
    /\ pc = "ready"
    /\ call = NoCall
    /\ result = Returned(<<>>)
    /\ rfc = NoRfc
    /\ rfc_ind = <<>>
    /\ v_ind = <<>>
    /\ fmM \in McDiagonal

SpecMctpDiagonal == InitMctpDiagonal /\ [][NextMctp]_vars

\* the caller holds a signal, or an empty signal and a min-max matrix with
\* MaxVal counts or fewer, and makes any one call
McSmall == UNION {CountMatrices(N, N, MaxVal) : N \in 1..MaxN}

InitAll ==
    \/ Init
    \/ /\ x = <<>>
       /\ pc = "ready"
       /\ call = NoCall
       /\ result = Returned(<<>>)
       /\ rfc = NoRfc
       /\ rfc_ind = <<>>
       /\ v_ind = <<>>
       /\ fmM \in McSmall

NextAll ==
    \/ Next
    \/ NextMctp

SpecAll == InitAll /\ [][NextAll]_vars

(* ------------------------------ properties ----------------------------- *)
\* the call to op has returned (or raised)
Called(op) == pc = "done" /\ call.op = op

\* what findcross returns for the same signal and level with kind=None
AllCrossings == findcross(x, call.v, NoKind).val

\* (x[i] - v) * (x[i+1] - v)
Product(i) == (At(x, i) - call.v) * (At(x, i + 1) - call.v)

\* the signal goes up (down) through the level between samples i and i+1
GoesUp(i) == At(x, i) <= call.v /\ At(x, i + 1) > call.v
GoesDown(i) == At(x, i) >= call.v /\ At(x, i + 1) < call.v

\* number of samples equal to v at the start of s
LeadingRun(s, v) ==
    CHOOSE L \in 0..Len(s) :
        /\ \A k \in 1..L : s[k] = v
        /\ L < Len(s) => s[L + 1] # v

StrictlyMonotonic(s) ==
    \/ \A k \in 1..(Len(s) - 1) : s[k] < s[k + 1]
    \/ \A k \in 1..(Len(s) - 1) : s[k] > s[k + 1]

\* C1 as stated: every index i returned by findcross with kind=None satisfies
\* (x[i]-v)*(x[i+1]-v) < 0, also for signals with samples equal to v.
C1_StrictSignChange ==
    (Called("findcross") /\ call.kind = NoKind) =>
        /\ result.exc = ""
        /\ \A k \in 1..Len(result.val) :
               /\ result.val[k] \in 0..(Len(x) - 2)
               /\ Product(result.val[k]) < 0

\* C1 amended: every index i returned by findcross with kind=None satisfies
\* (x[i]-v)*(x[i+1]-v) <= 0 with x[i+1] # v, and the product is < 0 whenever
\* x[i] # v (so always, for a signal with no sample equal to v).
C1_SignChange ==
    (Called("findcross") /\ call.kind = NoKind) =>
        /\ result.exc = ""
        /\ \A k \in 1..Len(result.val) :
               /\ result.val[k] \in 0..(Len(x) - 2)
               /\ Product(result.val[k]) <= 0
               /\ At(x, result.val[k] + 1) # call.v
               /\ At(x, result.val[k]) # call.v => Product(result.val[k]) < 0

\* a kind=None result holding a crossing at a sample equal to the level next
\* to one at a sample off the level
C1_Witness ==
    /\ Called("findcross") /\ call.kind = NoKind
    /\ \E k, m \in 1..Len(result.val) :
           /\ At(x, result.val[k]) = call.v
           /\ At(x, result.val[m]) # call.v

\* C2: when the signal starts with a run of samples equal to the level that
\* is followed by an off-level sample, findcross (kind=None) reports its first
\* crossing at the last index of that run; findcross([0,1,-1,1], 0) is [0,1,2].
C2_LeadingRunCrossing ==
    (Called("findcross") /\ call.kind = NoKind) =>
        LET L == LeadingRun(x, call.v)
        IN  /\ (L >= 1 /\ L < Len(x)) =>
                   /\ result.exc = ""
                   /\ Len(result.val) >= 1
                   /\ result.val[1] = L - 1
            /\ (x = <<0, 1, -1, 1>> /\ call.v = 0) => result = Returned(<<0, 1, 2>>)

C2_Witness ==
    /\ Called("findcross") /\ call.kind = NoKind
    /\ x = <<0, 1, -1, 1>> /\ call.v = 0
    /\ result.val = <<0, 1, 2>>

\* C3: for a signal with at least one crossing, kind='u' returns exactly the
\* crossings of the kind=None result at which the signal goes up through the
\* level (x[i] <= v < x[i+1]) and kind='d' exactly those at which it goes down
\* (x[i] >= v > x[i+1]), each in increasing index order.
C3_UpDownFilter ==
    (Called("findcross") /\ call.kind \in {"u", "d"} /\ Len(AllCrossings) >= 1) =>
        /\ result.exc = ""
        /\ call.kind = "u" => result.val = SelectSeq(AllCrossings, GoesUp)
        /\ call.kind = "d" => result.val = SelectSeq(AllCrossings, GoesDown)
        /\ \A k \in 1..(Len(result.val) - 1) : result.val[k] < result.val[k + 1]

\* upcrossings picked out of a result that starts with a downcrossing
C3_Witness ==
    /\ Called("findcross") /\ call.kind = "u"
    /\ Len(AllCrossings) >= 3
    /\ GoesDown(AllCrossings[1])
    /\ result.val = <<AllCrossings[2]>>

C5_UnknownKindRejected ==
    (Called("findcross") /\ call.kind \notin KnownKinds /\ Len(x) >= 2) =>
        result.exc = "ValueError"

\* C6: findextrema of a strictly increasing or strictly decreasing signal, of
\* any length, returns an empty index set and does not raise.
C6_MonotonicNoExtrema ==
    (Called("findextrema") /\ StrictlyMonotonic(x)) => result = Returned(<<>>)

C6_Witness ==
    /\ Called("findextrema")
    /\ Len(x) >= 3
    /\ StrictlyMonotonic(x)
    /\ result = Returned(<<>>)

C8_Idempotent ==
    (Called("rfcfilter") /\ call.h = 0 /\ call.method = 1) =>
        /\ Len(x) >= 1 => result.exc = ""
        /\ result.exc = "" => rfcfilter(result.val, 0, 1) = result

\* the first pass removed samples, the second removes none
C8_Witness ==
    /\ Called("rfcfilter") /\ call.h = 0 /\ call.method = 1
    /\ result.exc = ""
    /\ Len(result.val) >= 3
    /\ Len(result.val) < Len(x)
    /\ rfcfilter(result.val, 0, 1).val = result.val

\* C9: for a signal of at least 2 samples and h >= 0, two consecutive values
\* of rfcfilter's output differ by at least h (method 0), by more than h
\* (method 1), the first pair and the final appended point included.
C9_RangeAtLeastH ==
    (Called("rfcfilter") /\ Len(x) >= 2) =>
        /\ result.exc = ""
        /\ \A k \in 1..(Len(result.val) - 1) :
               IF call.method = 0
               THEN abs(result.val[k + 1] - result.val[k]) >= call.h
               ELSE abs(result.val[k + 1] - result.val[k]) > call.h

\* method 1 with h > 0: samples were removed, and the final point was appended
C9_Witness ==
    /\ Called("rfcfilter") /\ call.method = 1 /\ call.h >= 1
    /\ Len(result.val) >= 3
    /\ Len(result.val) < Len(x)
    /\ rfc.t[rfc.j + 1] = rfc.t0

\* C10: the indices t[0..j] retained by rfcfilter are strictly increasing for
\* every signal, every h >= 0 and both methods, and the index buffer t of
\* length n is never overrun.
C10_IndicesIncreasing ==
    (call.op = "rfcfilter" /\ Len(x) >= 1) =>
        /\ rfc.exc = ""
        /\ rfc.j < Len(rfc.t)
        /\ \A k \in 1..rfc.j : rfc.t[k] < rfc.t[k + 1]

\* C11: for a signal shorter than 2 samples, rfcfilter returns a well-defined
\* empty or partial result and does not raise, for every h >= 0 and both
\* methods (the defaults h = 0, method = 0 included).
C11_ShortSignalReturns ==
    (Called("rfcfilter") /\ Len(x) < 2) =>
        /\ result.exc = ""
        /\ \A k \in 1..Len(result.val) : \E m \in 1..Len(x) : result.val[k] = x[m]

(* ------------------------- properties of findrfc ----------------------- *)
\* s alternates strictly: no two neighbours are equal and every interior
\* point is above both neighbours or below both
StrictlyAlternating(s) ==
    /\ \A k \in 1..(Len(s) - 1) : s[k] # s[k + 1]
    /\ \A k \in 2..(Len(s) - 1) : (s[k] > s[k - 1]) <=> (s[k] > s[k + 1])

\* the turning point at index i of x is a crest (a trough): above (below)
\* the neighbours it has
IsCrest(i) ==
    /\ i > 0 => At(x, i) > At(x, i - 1)
    /\ i < Len(x) - 1 => At(x, i) > At(x, i + 1)
IsTrough(i) ==
    /\ i > 0 => At(x, i) < At(x, i - 1)
    /\ i < Len(x) - 1 => At(x, i) < At(x, i + 1)

\* number of cycles findrfc emitted, and the two indices written for cycle k
NCycles == Len(rfc_ind) \div 2
CycleFirst(k) == rfc_ind[2 * k - 1]
CycleSecond(k) == rfc_ind[2 * k]

\* C12: for every strictly alternating turning-point sequence and threshold h,
\* findrfc emits at most floor(len(tp)/2) cycles, and every emitted cycle (the
\* pair of indices written together) joins a crest and a trough whose values
\* differ by at least h.
C12_CyclesBounded ==
    (Called("findrfc") /\ StrictlyAlternating(x)) =>
        /\ Len(rfc_ind) % 2 = 0
        /\ NCycles <= Len(x) \div 2
        /\ \A k \in 1..NCycles :
               \E c, t \in {CycleFirst(k), CycleSecond(k)} :
                   /\ c \in 0..(Len(x) - 1) /\ t \in 0..(Len(x) - 1)
                   /\ IsCrest(c) /\ IsTrough(t)
                   /\ At(x, c) - At(x, t) >= call.h

\* an alternating sequence with h > 0 from which a cycle is emitted and a
\* smaller cycle is left out
C12_Witness ==
    /\ Called("findrfc") /\ StrictlyAlternating(x) /\ call.h >= 1
    /\ NCycles >= 1
    /\ Len(findrfc_ind(x, 0)) > Len(rfc_ind)

\* the cycles in an index buffer: the pairs of indices written together
CyclesOf(ind) == {<<ind[2 * k - 1], ind[2 * k]>> : k \in 1..(Len(ind) \div 2)}

\* the set of the elements of a sequence
Range(s) == {s[k] : k \in 1..Len(s)}

\* the difference of the two values a cycle joins
Amplitude(c) == abs(At(x, c[1]) - At(x, c[2]))

\* C13: threshold monotonicity of findrfc: for thresholds h1 <= h2 the cycles
\* (and the indices) returned for h2 are among those returned for h1, and when
\* h is at most the smallest cycle amplitude findrfc(tp, h) returns what
\* findrfc(tp, 0) returns.
C13_ThresholdMonotone ==
    Called("findrfc") =>
        /\ \A h1 \in 0..call.h :
               /\ CyclesOf(rfc_ind) \subseteq CyclesOf(findrfc_ind(x, h1))
               /\ Range(result.val) \subseteq Range(findrfc(x, h1).val)
        /\ (\A c \in CyclesOf(findrfc_ind(x, 0)) : call.h <= Amplitude(c))
               => result = findrfc(x, 0)

\* the largest threshold removed a cycle and kept another, while threshold 1,
\* not above the smallest amplitude, changed nothing
C13_Witness ==
    /\ Called("findrfc") /\ call.h = MaxH
    /\ StrictlyAlternating(x)
    /\ CyclesOf(rfc_ind) # {}
    /\ CyclesOf(rfc_ind) # CyclesOf(findrfc_ind(x, 0))
    /\ \A c \in CyclesOf(findrfc_ind(x, 0)) : 1 <= Amplitude(c)
    /\ findrfc(x, 1) = findrfc(x, 0)

\* findrfc(tp[1:], h) with 1 added to every index
ShiftedRfc(tp, h) ==
    LET r == findrfc(SliceFrom(tp, 1), h)
    IN  [r EXCEPT !.val = [k \in 1..Len(r.val) |-> r.val[k] + 1]]

\* C14: if the first turning point is a maximum (tp[0] > tp[1]) and the rest
\* alternates, findrfc(tp, h) equals findrfc(tp[1:], h) with 1 added to every
\* index.
C14_FirstMaxDropped ==
    (Called("findrfc") /\ Len(x) >= 2 /\ At(x, 0) > At(x, 1)
                       /\ StrictlyAlternating(x)) =>
        result = ShiftedRfc(x, call.h)

\* C15: if the first three points of the sequence passed to findrfc are
\* monotonically increasing or monotonically decreasing, findrfc returns an
\* empty result and does not raise, for every sequence length.
C15_MonotoneStartEmpty ==
    (Called("findrfc") /\ Len(x) >= 3
        /\ \/ At(x, 0) < At(x, 1) /\ At(x, 1) < At(x, 2)
           \/ At(x, 0) > At(x, 1) /\ At(x, 1) > At(x, 2)) =>
        result = Returned(<<>>)

\* the number of turning points left once a leading maximum is dropped
AdjustedLen(tp) ==
    IF Len(tp) >= 2 /\ At(tp, 0) > At(tp, 1) THEN Len(tp) - 1 ELSE Len(tp)

\* C16: for every sequence with fewer than 3 elements after the first-point
\* adjustment (lengths 0, 1 and 2 included), findrfc returns an empty index
\* array and does not raise.
C16_ShortSequenceEmpty ==
    (Called("findrfc") /\ AdjustedLen(x) < 3) => result = Returned(<<>>)

\* C17: for every strictly alternating turning-point sequence and every h, the
\* index array returned by findrfc has even length, is strictly ascending, and
\* holds no turning-point index twice (no turning point is in two cycles).
C17_SortedDistinctPairs ==
    (Called("findrfc") /\ StrictlyAlternating(x)) =>
        /\ Len(result.val) % 2 = 0
        /\ \A k \in 1..(Len(result.val) - 1) : result.val[k] < result.val[k + 1]
        /\ \A k \in 1..Len(result.val) : result.val[k] \in 0..(Len(x) - 1)
        /\ Cardinality(Range(rfc_ind)) = Len(rfc_ind)
        /\ Range(result.val) = Range(rfc_ind)
        /\ Len(result.val) = Len(rfc_ind)

\* two cycles were emitted, the second reaching back before the first, so the
\* sort reordered the indices
C17_Witness ==
    /\ Called("findrfc") /\ StrictlyAlternating(x)
    /\ Len(result.val) >= 4
    /\ result.val # rfc_ind

(* ------------------------- properties of findtp ------------------------ *)
\* C18: for every signal x of length n, every h < 0 and every kind,
\* findtp(x, h, kind) returns the identity index sequence 0, 1, ..., n-1.
C18_NegativeHIdentity ==
    (Called("findtp") /\ call.h < 0) =>
        result = Returned([k \in 1..Len(x) |-> k - 1])

\* a wave kind with h < 0 on a signal whose turning points for h = 0 are not
\* all of its samples
C18_Witness ==
    /\ Called("findtp") /\ call.h < 0 /\ call.kind = "Mw"
    /\ Len(x) >= 3
    /\ result.val = <<0>> \o [k \in 1..(Len(x) - 1) |-> k]
    /\ findtp(x, 0, call.kind).exc = "" /\ ~findtp(x, 0, call.kind).none
    /\ Len(findtp(x, 0, call.kind).val) < Len(x)

\* sample i of x is not below (not above) the samples next to it
IsLocalMax(i) ==
    /\ i > 0 => At(x, i) >= At(x, i - 1)
    /\ i < Len(x) - 1 => At(x, i) >= At(x, i + 1)
IsLocalMin(i) ==
    /\ i > 0 => At(x, i) <= At(x, i - 1)
    /\ i < Len(x) - 1 => At(x, i) <= At(x, i + 1)

\* C19: for every signal (with turning points) and every h >= 0, findtp with
\* kind 'Mw' returns an odd-length index sequence whose first point is a local
\* maximum, and with kind 'mw' an odd-length sequence whose first point is a
\* local minimum, also when rainflow filtering with h > 0 leaves fewer than
\* two turning points.
C19_WaveTrimmed ==
    (Called("findtp") /\ call.h >= 0 /\ call.kind \in {"Mw", "mw"}
                      /\ Len(findextrema(x).val) >= 2) =>
        /\ result.exc = "" /\ ~result.none
        /\ Len(result.val) % 2 = 1
        /\ result.val[1] \in 0..(Len(x) - 1)
        /\ IF call.kind = "Mw" THEN IsLocalMax(result.val[1])
                               ELSE IsLocalMin(result.val[1])

(* ------------------------- properties of findtc ------------------------ *)
\* the crossings findtc starts from, and the side of the level sample i is on
TcCrossings ==
    findcross(TcSignal(x, call.v_is_None), TcLevel(x, call.v, call.v_is_None),
              call.kind).val
LevelSide(i) ==
    sign(At(TcSignal(x, call.v_is_None), i) - TcLevel(x, call.v, call.v_is_None))

\* the samples between crossing k and crossing k + 1 (k counted from 0)
TcWindow(k) == (At(TcCrossings, k) + 1)..At(TcCrossings, k + 1)

\* C20: for every signal with at least 3 crossings of level v, findtc returns
\* without raising, each returned trough index is the position of the minimum
\* of the signal over the window from a downcrossing to the next upcrossing
\* (samples v_ind[k]+1 .. v_ind[k+1]), and each crest index the position of the
\* maximum over the window from an upcrossing to the next downcrossing, the
\* last window included.
C20_TroughsAndCrests ==
    (Called("findtc") /\ Len(TcCrossings) >= 3) =>
        /\ result.exc = ""
        /\ v_ind = TcCrossings
        /\ Len(result.val) = Len(v_ind) - 1
        /\ \A k \in 0..(Len(v_ind) - 2) :
               /\ At(result.val, k) \in TcWindow(k)
               /\ \A i \in TcWindow(k) :
                      IF LevelSide(At(v_ind, k) + 1) < 0
                      THEN At(x, At(result.val, k)) <= At(x, i)
                      ELSE At(x, At(result.val, k)) >= At(x, i)

(* ------------------------ properties of mctp2rfc ----------------------- *)
\* the matrix as the floats the program computes with
AsFloats(M) == [a \in 1..Len(M) |-> [b \in 1..Len(M) |-> Float(M[a][b])]]

\* all non-zero entries of M lie on the main diagonal
OnlyDiagonal(M) == \A a, b \in 1..Len(M) : a # b => M[a][b] = 0

\* all non-zero entries of M lie at 0-based positions (i, j) with i + j <= N - 2,
\* above the anti-diagonal
AboveAntiDiagonal(M) ==
    \A a, b \in 1..Len(M) : M[a][b] # 0 => (a - 1) + (b - 1) <= Len(M) - 2

\* C21 as stated: for a matrix whose non-zero entries all lie on the main
\* diagonal, mctp2rfc returns a matrix whose only non-zero entries are on the
\* diagonal and equal the input's diagonal, i.e. it returns the input.
C21_DiagonalPreserved ==
    Called("mctp2rfc") /\ OnlyDiagonal(fmM) => result = Returned(AsFloats(fmM))

\* C21 amended: for a matrix whose non-zero entries all lie on the main
\* diagonal at 0-based positions (i, i) with 2 i <= N - 2, mctp2rfc returns a
\* matrix whose only non-zero entries are on the diagonal and equal the
\* input's diagonal.
C21_UpperDiagonalPreserved ==
    Called("mctp2rfc") /\ OnlyDiagonal(fmM) /\ AboveAntiDiagonal(fmM)
        => result = Returned(AsFloats(fmM))

\* a call on a diagonal matrix with two non-zero entries above the anti-diagonal
C21_Witness ==
    /\ Called("mctp2rfc")
    /\ OnlyDiagonal(fmM)
    /\ AboveAntiDiagonal(fmM)
    /\ \E a, b \in 1..Len(fmM) : a # b /\ fmM[a][a] # 0 /\ fmM[b][b] # 0

\* C22: for every non-negative fmM, every row sum and every column sum of
\* mctp2rfc(fmM) is at most the same row or column sum of fmM, within the
\* tolerance 1e-6.
C22_MarginalsBounded ==
    Called("mctp2rfc") /\ result.exc = ""
        => \A a \in 1..Len(fmM) :
              /\ ~Less(Plus(RowSums(AsFloats(fmM))[a], Tol), RowSums(result.val)[a])
              /\ ~Less(Plus(ColSums(AsFloats(fmM))[a], Tol), ColSums(result.val)[a])

\* C23: mctp2rfc always returns an N x N matrix and never raises; a singular
\* (I - B.A) block of size above 1 is solved, not failed on.
C23_AlwaysReturns ==
    Called("mctp2rfc")
        => /\ result.exc = ""
           /\ Len(result.val) = Len(fmM)
           /\ \A a \in 1..Len(fmM) : Len(result.val[a]) = Len(fmM)

(* ----------------------- properties of every call ---------------------- *)
\* the sign array findcross hands to _findcross for the call made
SignArray == [k \in 1..Len(x) |-> sign(x[k] - call.v)]

FoldedSigns == findcross_(SignArray).xn

\* C25 as stated: a leading run of samples on the level is treated as lying
\* on the same side as the first off-level sample after it, so findcross
\* (kind=None) reports no crossing inside or at the end of the leading run.
C25_LeadingRunSameSide ==
    (Called("findcross") /\ call.kind = NoKind) =>
        LET L == LeadingRun(x, call.v)
        IN  (L >= 1 /\ L < Len(x)) =>
                /\ result.exc = ""
                /\ \A k \in 1..L : FoldedSigns[k] = SignArray[L + 1]
                /\ \A k \in 1..Len(result.val) : result.val[k] > L - 1

\* C25 amended: a leading run of samples on the level is treated as lying on
\* the opposite side from the first off-level sample after it, so findcross
\* (kind=None) reports exactly one crossing for the leading run, at its last
\* index, and none inside it.
C25_LeadingRunOppositeSide ==
    (Called("findcross") /\ call.kind = NoKind) =>
        LET L == LeadingRun(x, call.v)
        IN  (L >= 1 /\ L < Len(x)) =>
                /\ result.exc = ""
                /\ \A k \in 1..L : FoldedSigns[k] = -SignArray[L + 1]
                /\ \E k \in 1..Len(result.val) : result.val[k] = L - 1
                /\ \A k \in 1..Len(result.val) : result.val[k] >= L - 1

\* a call on a signal that starts with two or more samples on the level and
\* has crossings after the run as well
C25_Witness ==
    /\ Called("findcross") /\ call.kind = NoKind
    /\ LeadingRun(x, call.v) >= 2
    /\ LeadingRun(x, call.v) < Len(x)
    /\ Len(result.val) >= 2

\* samples a..b (counted from 1) are a run on the level with an off-level
\* sample before it and one after it
InteriorRun(a, b) ==
    /\ 2 <= a /\ a <= b /\ b < Len(x)
    /\ \A k \in a..b : x[k] = call.v
    /\ x[a - 1] # call.v
    /\ x[b + 1] # call.v

\* C26: an interior run of samples on the level is folded into the side of
\* the sample before it: findcross (kind=None) reports no crossing for the run
\* when the samples before and after it lie on the same side of the level, and
\* exactly one, at the last index of the run, when they lie on opposite sides.
C26_InteriorRunFolded ==
    (Called("findcross") /\ call.kind = NoKind) =>
        \A a, b \in 1..Len(x) :
            InteriorRun(a, b) =>
                LET found == {i \in (a - 2)..(b - 1) :
                                 \E k \in 1..Len(result.val) : result.val[k] = i}
                IN  /\ result.exc = ""
                    /\ \A k \in a..b : FoldedSigns[k] = SignArray[a - 1]
                    /\ found = IF SignArray[a - 1] = SignArray[b + 1]
                               THEN {} ELSE {b - 1}

\* a call on a signal with an interior run of two samples whose neighbours
\* lie on opposite sides of the level
C26_Witness ==
    /\ Called("findcross") /\ call.kind = NoKind
    /\ \E a \in 1..Len(x) :
          /\ InteriorRun(a, a + 1)
          /\ SignArray[a - 1] # SignArray[a + 2]
          /\ Len(result.val) >= 1

(* ----------------- properties of findtp with a threshold --------------- *)
\* C27: for every signal with at least two extrema, the values x[ind] for
\* ind = findtp(x, h=0, kind=None) alternate strictly and start with a
\* minimum.
C27_AlternatesFromMinimum ==
    (Called("findtp") /\ call.h = 0 /\ call.kind = NoKind
        /\ Len(findextrema(x).val) >= 2) =>
        /\ result.exc = "" /\ ~result.none
        /\ StrictlyAlternating(Take(x, result.val))
        /\ Take(x, result.val)[1] < Take(x, result.val)[2]

(* ------------------ properties of the rfcfilter loop ------------------- *)
\* the loop of rfcfilter is running and a direction is established
InLoopWithDirection == pc = "rfc_loop" /\ rfc.exc = "" /\ rfc.z0 # 0

\* the samples after the turning point emitted last, t[j], up to the sample
\* the loop has just handled
SinceLastEmitted == {At(x, k) : k \in (At(rfc.t, rfc.j) + 1)..(rfc.ti - 1)}

\* C28: at every step of rfcfilter at which a direction is established, the
\* retained y0 is the extreme so far in that direction (the minimum if
\* z0 = -1, the maximum if z0 = +1) of the samples after the last emitted
\* turning point up to the current sample; a sample in the established
\* direction only replaces the retained point and never emits one.
C28_RetainedIsExtreme ==
    /\ [](InLoopWithDirection =>
            /\ rfc.y0 = At(x, rfc.t0)
            /\ rfc.y0 \in SinceLastEmitted
            /\ rfc.z0 = -1 => \A s \in SinceLastEmitted : rfc.y0 <= s
            /\ rfc.z0 = 1 => \A s \in SinceLastEmitted : rfc.y0 >= s)
    /\ [][(InLoopWithDirection /\ rfc'.ti = rfc.ti + 1 /\ rfc'.z0 = rfc.z0) =>
            /\ rfc'.j = rfc.j
            /\ rfc'.t = rfc.t
            /\ rfc'.t0 \in {rfc.t0, rfc.ti}]_vars

\* the loop has kept a retained point over a later sample in the same
\* direction, after a turning point was emitted
C28_Witness ==
    /\ InLoopWithDirection
    /\ rfc.j >= 1
    /\ rfc.t0 < rfc.ti - 1
    /\ At(x, rfc.ti - 1) # rfc.y0

\* C29: once a direction is established, exactly one of the tests for
\* z1 = -1 and z1 = +1 holds for the next sample, so the 'Something wrong'
\* branch is never reached, whatever the signal and h.
C29_OneTransitionFires ==
    /\ ~rfc.warned
    /\ (InLoopWithDirection /\ rfc.ti < Len(x)) =>
           LET yi   == At(x, rfc.ti)
               fpi  == rfc.y0 + call.h
               fmi  == rfc.y0 - call.h
               m    == call.method
               down == \/ rfc.z0 = 1 /\ cmpfun1(m, yi, fmi)
                       \/ rfc.z0 = -1 /\ cmpfun2(m, yi, fpi)
               up   == \/ rfc.z0 = 1 /\ cmpfun2(m, fmi, yi)
                       \/ rfc.z0 = -1 /\ cmpfun1(m, fpi, yi)
           IN  /\ down # up
               /\ ~SomethingWrong(rfc.z0, rfc.y0, yi, call.h, m)

\* the loop meets, with a direction established, a sample exactly h away from
\* the retained point
C29_Witness ==
    /\ InLoopWithDirection /\ rfc.ti < Len(x)
    /\ call.h >= 1
    /\ abs(At(x, rfc.ti) - rfc.y0) = call.h

\* no two neighbouring samples of x are equal
NoPlateau == \A k \in 1..(Len(x) - 1) : x[k] # x[k + 1]

\* s is a subsequence of u, both strictly increasing
IncreasingSubsequence(s, u) ==
    /\ \A k \in 1..(Len(s) - 1) : s[k] < s[k + 1]
    /\ \A k \in 1..Len(s) : \E m \in 1..Len(u) : u[m] = s[k]

\* C30: for every signal without plateaus and every h > 0, the indices of
\* findtp(x, h, kind=None) are a strictly increasing subsequence of those of
\* findtp(x, 0, kind=None), and their values still alternate between minima
\* and maxima.
C30_FilteredSubsequence ==
    (Called("findtp") /\ call.h > 0 /\ call.kind = NoKind /\ NoPlateau) =>
        LET tp0 == findtp(x, 0, NoKind)
        IN  IF tp0.none THEN result = tp0
            ELSE /\ tp0.exc = ""
                 /\ result.exc = "" /\ ~result.none
                 /\ IncreasingSubsequence(result.val, tp0.val)
                 /\ StrictlyAlternating(Take(x, result.val))

\* a call with h > 0 on a signal without plateaus that keeps four or more of
\* the turning points found with h = 0 and drops others
C30_Witness ==
    /\ Called("findtp") /\ call.h > 0 /\ call.kind = NoKind /\ NoPlateau
    /\ result.exc = "" /\ ~result.none
    /\ Len(result.val) >= 4
    /\ Len(result.val) < Len(findtp(x, 0, NoKind).val)

=============================================================================
